---- MODULE Spec2Model ----
(***************************************************************************)
(* A model of the persona-driven document intelligence pipeline:           *)
(*   pdf_processor.parse_pdf          (Segmenter)                          *)
(*   content_analyzer.*               (Vectorizer and Relevance Scorer)    *)
(*   persona_matcher.rank_sections    (Ranker)                             *)
(*   document_intelligence.*          (Refiner)                            *)
(*   main.process_input_file, auto_processor.process_pdf (batch drivers)   *)
(*                                                                         *)
(* Representation of text.  A string is a sequence of words (the maximal   *)
(* runs of non-whitespace characters); the empty string and a blank line   *)
(* are <<>>.  str.strip(), str.split() and " ".join() act on whitespace    *)
(* only, so on this representation strip is the identity on a word         *)
(* sequence, split yields the words and join is concatenation.  Words are  *)
(* taken from a fixed vocabulary; what the character-level code (regular   *)
(* expressions, isupper, isdigit, len, lower) computes on each word is     *)
(* tabulated in WordInfo.  A line is written with single spaces between    *)
(* its words.                                                              *)
(***************************************************************************)
EXTENDS Integers, Sequences, FiniteSets, TLC

VARIABLES
    driver,            \* entry point under analysis: "parse_pdf", "rank_sections", "main", "auto",
                       \* or the function called on its own
    files,             \* the file system: file name -> [exists, pdfinfo, pages]
    input_json,        \* process_input_file: whether the input file parses as JSON
    filepath,          \* argument of the running parse_pdf call
    pc,                \* position of the running call
    page_num,          \* parse_pdf: loop variable of the page loop
    sections,          \* parse_pdf: the list being built / returned
    docs_info,         \* batch item: the documents of the input (file names, NoFilename)
    doc_idx,           \* batch loop position in docs_info
    persona,           \* persona descriptor (a dict: a function on a set of keys)
    job,               \* job descriptor
    all_sections,      \* the annotated sections handed to rank_sections
    scores,            \* rank_sections: the result of compute_relevance_scores
    ranked,            \* result of rank_sections
    outputs,           \* output files written so far (sequence of output_data records)
    log,               \* what was reported as skipped / failed
    call,              \* the arguments of a function called on its own
    result             \* what that call returned

\* what parse_pdf does not touch
batchVars == <<input_json, docs_info, doc_idx, persona, job, all_sections, scores, ranked, outputs, log>>

\* what only the calls of single functions touch
callVars == <<call, result>>

vars == <<driver, files, filepath, pc, page_num, sections, batchVars, callVars>>

-----------------------------------------------------------------------------
(* Bounds of the model *)

MaxPages == 2        \* pages of a document
MaxDocLines == 4     \* raw lines of a document, over all its pages

-----------------------------------------------------------------------------
(* Generic helpers *)

Min(a, b) == IF a <= b THEN a ELSE b

SeqsUpTo(S, n) == UNION {[1..k -> S] : k \in 0..n}

RECURSIVE Flatten(_)
\* " ".join(list_of_strings) on word sequences
Flatten(ss) == IF ss = <<>> THEN <<>> ELSE Head(ss) \o Flatten(Tail(ss))

RECURSIVE SumSeq(_)
SumSeq(s) == IF s = <<>> THEN 0 ELSE Head(s) + SumSeq(Tail(s))

\* d.copy(); d[k] = v
DictSet(d, k, v) == [x \in DOMAIN d \cup {k} |-> IF x = k THEN v ELSE d[x]]

\* d.get(k, default)
DictGet(d, k, default) == IF k \in DOMAIN d THEN d[k] ELSE default

-----------------------------------------------------------------------------
(* The vocabulary: what the character-level code computes on each word.    *)
(*   len      len(word)                                                    *)
(*   first    class of word[0]: isupper, isdigit, or other                 *)
(*   enum     the word is an enumeration label: it matches                 *)
(*            (\d+\.\d*|\d+|[A-Z])\. entirely                              *)
(*   letters  re.sub("[^A-Za-z]", "", word): "none" when empty, "upper"    *)
(*            when isupper(), else "mixed"                                 *)
(*   ends     the word ends with one of . ! ?                              *)
(*   tokens   re.sub("[^a-zA-Z0-9\s]", " ", word.lower()).split()          *)

Plain(n, t) ==
    [len |-> n, first |-> "other", enum |-> FALSE, letters |-> "mixed",
     ends |-> FALSE, tokens |-> <<t>>]

Capitalised(n, t) ==
    [len |-> n, first |-> "upper", enum |-> FALSE, letters |-> "mixed",
     ends |-> FALSE, tokens |-> <<t>>]

Number(n, t) ==
    [len |-> n, first |-> "digit", enum |-> FALSE, letters |-> "none",
     ends |-> FALSE, tokens |-> <<t>>]

WordInfo(w) ==
  CASE w = "1." -> [len |-> 2, first |-> "digit", enum |-> TRUE, letters |-> "none",
                    ends |-> TRUE, tokens |-> <<"1">>]
    [] w = "2.3" -> [len |-> 3, first |-> "digit", enum |-> FALSE, letters |-> "none",
                     ends |-> FALSE, tokens |-> <<"2", "3">>]
    [] w = "2.3." -> [len |-> 4, first |-> "digit", enum |-> TRUE, letters |-> "none",
                      ends |-> TRUE, tokens |-> <<"2", "3">>]
    [] w = "A." -> [len |-> 2, first |-> "upper", enum |-> TRUE, letters |-> "upper",
                    ends |-> TRUE, tokens |-> <<"a">>]
    [] w = "Introduction" -> Capitalised(12, "introduction")
    [] w = "Conclusion" -> Capitalised(10, "conclusion")
    [] w = "Appendix" -> Capitalised(8, "appendix")
    [] w = "we" -> Plain(2, "we")
    [] w = "optimize" -> Plain(8, "optimize")
    [] w = "systems." -> [len |-> 8, first |-> "other", enum |-> FALSE, letters |-> "mixed",
                          ends |-> TRUE, tokens |-> <<"systems">>]
    [] w = "data" -> Plain(4, "data")
    [] w = "for" -> Plain(3, "for")
    [] w = "research" -> Plain(8, "research")
    [] w = "Page" -> Capitalised(4, "page")
    [] w = "1" -> Number(1, "1")
    [] w = "2" -> Number(1, "2")
    [] w = "3" -> Number(1, "3")
    [] w = "4" -> Number(1, "4")
    [] w = "Researcher" -> Capitalised(10, "researcher")
    [] w = "Reader" -> Capitalised(6, "reader")
    [] w = "Student" -> Capitalised(7, "student")
    [] w = "Business" -> Capitalised(8, "business")
    [] w = "Analyst" -> Capitalised(7, "analyst")
    [] w = "Healthcare" -> Capitalised(10, "healthcare")
    [] w = "Professional" -> Capitalised(12, "professional")
    [] w = "Prepare" -> Capitalised(7, "prepare")
    [] w = "a" -> Plain(1, "a")
    [] w = "literature" -> Plain(10, "literature")
    [] w = "review" -> Plain(6, "review")
    [] w = "of" -> Plain(2, "of")
    [] w = "the" -> Plain(3, "the")
    [] w = "document's" -> [len |-> 10, first |-> "other", enum |-> FALSE, letters |-> "mixed",
                            ends |-> FALSE, tokens |-> <<"document", "s">>]
    [] w = "contributions" -> Plain(13, "contributions")
    [] w = "Summarise" -> Capitalised(9, "summarise")
    [] w = "key" -> Plain(3, "key")
    [] w = "sections" -> Plain(8, "sections")
    [] w = "document" -> Plain(8, "document")
    [] w = "Identify" -> Capitalised(8, "identify")
    [] w = "and" -> Plain(3, "and")
    [] w = "study" -> Plain(5, "study")
    [] w = "concepts" -> Plain(8, "concepts")
    [] w = "exam" -> Plain(4, "exam")
    [] w = "preparation" -> Plain(11, "preparation")
    [] w = "Extract" -> Capitalised(7, "extract")
    [] w = "insights" -> Plain(8, "insights")
    [] w = "analyse" -> Plain(7, "analyse")
    [] w = "trends" -> Plain(6, "trends")
    [] w = "from" -> Plain(4, "from")
    [] w = "clinical" -> Plain(8, "clinical")
    [] w = "information" -> Plain(11, "information")
    [] w = "relevant" -> Plain(8, "relevant")
    [] w = "to" -> Plain(2, "to")
    [] w = "patient" -> Plain(7, "patient")
    [] w = "care" -> Plain(4, "care")

\* len(text) of a line written with single spaces between its words
TextLen(text) ==
    IF text = <<>> THEN 0
    ELSE SumSeq([i \in 1..Len(text) |-> WordInfo(text[i]).len]) + (Len(text) - 1)

-----------------------------------------------------------------------------
(* pdf_processor._is_heading *)

\* re.match(r"^(\d+\.\d*|\d+|[A-Z])\.\s", text): the label and its period are
\* the whole first word, and whitespace (so another word) follows it
EnumerationMatch(text) == Len(text) >= 2 /\ WordInfo(text[1]).enum

\* sum(1 for w in words if w and (w[0].isupper() or w[0].isdigit()))
CapCount(words) ==
    Cardinality({i \in 1..Len(words) : WordInfo(words[i]).first \in {"upper", "digit"}})

\* letters_only = re.sub(r"[^A-Za-z]", "", text); letters_only and letters_only.isupper()
AllUppercase(text) ==
    /\ \E i \in 1..Len(text) : WordInfo(text[i]).letters # "none"
    /\ \A i \in 1..Len(text) : WordInfo(text[i]).letters # "mixed"

_is_heading(line) ==
    IF line = <<>> THEN FALSE
    ELSE IF TextLen(line) > 100 THEN FALSE
    ELSE IF Len(line) > 15 THEN FALSE
    ELSE IF EnumerationMatch(line) THEN TRUE
    \* cap_count / len(words) >= 0.6
    ELSE IF CapCount(line) * 10 >= 6 * Len(line) THEN TRUE
    ELSE IF AllUppercase(line) THEN TRUE
    ELSE FALSE

-----------------------------------------------------------------------------
(* pdf_processor.parse_pdf: the body of the page loop *)

\* an optional title: <<>> is None, <<t>> is the title t
None == <<>>

Section(title, body_lines, n) ==
    [section_title |-> title, text |-> Flatten(body_lines), page_number |-> n]

\* [ln.strip() for ln in page_text.splitlines() if ln.strip()]
NonEmptyLines(page_text) == SelectSeq(page_text, LAMBDA ln : ln # <<>>)

\* mutant: the page label counts pages from 0
PageTitle_ZeroBased(n) == <<"Page", ToString(n - 1)>>

\* f"Page {page_num}"
PageTitle(n) == <<"Page", ToString(n)>>

\* the flush of the section that a heading line closes
FlushOnHeading(current_title, current_lines, n) ==
    IF current_title # None
    THEN <<Section(current_title[1], current_lines, n)>>
    ELSE <<>>

\* the flush after the last line of the page
FlushRemainder(lines, current_title, current_lines, n) ==
    IF current_title # None /\ current_lines # <<>>
    THEN <<Section(current_title[1], current_lines, n)>>
    ELSE IF current_title = None /\ lines # <<>>
    THEN <<Section(PageTitle(n), lines, n)>>
    ELSE <<>>

RECURSIVE GroupLines_KeepPreamble(_, _, _, _, _)
\* mutant: the lines before the first heading stay in the accumulator and
\* open the body of the first section
GroupLines_KeepPreamble(lines, i, current_title, current_lines, n) ==
    IF i > Len(lines)
    THEN FlushRemainder(lines, current_title, current_lines, n)
    ELSE IF _is_heading(lines[i])
    THEN FlushOnHeading(current_title, current_lines, n)
         \o GroupLines_KeepPreamble(lines, i + 1, <<lines[i]>>,
                                    IF current_title = None THEN current_lines ELSE <<>>, n)
    ELSE GroupLines_KeepPreamble(lines, i + 1, current_title,
                                 Append(current_lines, lines[i]), n)

RECURSIVE GroupLines(_, _, _, _, _)
\* for line in lines: ...  from position i, with the accumulator of the loop
GroupLines(lines, i, current_title, current_lines, n) ==
    IF i > Len(lines)
    THEN FlushRemainder(lines, current_title, current_lines, n)
    ELSE IF _is_heading(lines[i])
    THEN FlushOnHeading(current_title, current_lines, n)
         \o GroupLines(lines, i + 1, <<lines[i]>>, <<>>, n)
    ELSE GroupLines(lines, i + 1, current_title, Append(current_lines, lines[i]), n)

\* the sections one successfully extracted page appends
PageSections(page_text, n) == GroupLines(NonEmptyLines(page_text), 1, None, <<>>, n)

-----------------------------------------------------------------------------
(* pdf_processor.parse_pdf as a sequence of steps *)

\* filepath.lower().endswith(".pdf")
EndsWithPdf(name) == name \in {"a.pdf", "b.pdf", "c.pdf", "D.PDF", "missing.pdf"}

\* os.path.exists(filepath)
Exists(name) == name \in DOMAIN files /\ files[name].exists

\* line 131-132: raise ValueError
ParseInvalidPath ==
    /\ pc = "parse_pdf"
    /\ ~Exists(filepath) \/ ~EndsWithPdf(filepath)
    /\ pc' = "raised"
    /\ UNCHANGED <<driver, callVars, files, filepath, page_num, sections, batchVars>>

\* line 133: _run_pdfinfo raises RuntimeError
ParsePdfinfoFails ==
    /\ pc = "parse_pdf"
    /\ Exists(filepath) /\ EndsWithPdf(filepath)
    /\ ~files[filepath].pdfinfo
    /\ pc' = "raised"
    /\ UNCHANGED <<driver, callVars, files, filepath, page_num, sections, batchVars>>

\* lines 133-135: num_pages known, sections = [], the loop starts at page 1
ParseBegin ==
    /\ pc = "parse_pdf"
    /\ Exists(filepath) /\ EndsWithPdf(filepath)
    /\ files[filepath].pdfinfo
    /\ sections' = <<>>
    /\ page_num' = 1
    /\ pc' = "pages"
    /\ UNCHANGED <<driver, callVars, files, filepath, batchVars>>

\* mutant: the RuntimeError of a page is not caught and leaves parse_pdf
OnPageFailure_Abort ==
    /\ pc' = "raised"
    /\ UNCHANGED <<page_num, sections>>

\* lines 136-140: _run_pdftotext_page raises, the page is skipped
OnPageFailure ==
    /\ page_num' = page_num + 1
    /\ UNCHANGED <<pc, sections>>

ParsePageFails ==
    /\ pc = "pages"
    /\ page_num <= Len(files[filepath].pages)
    /\ ~files[filepath].pages[page_num].ok
    /\ OnPageFailure
    /\ UNCHANGED <<driver, callVars, files, filepath, batchVars>>

\* mutant: the sections of a page are put in front of the list
ParsePage_Prepend ==
    /\ pc = "pages"
    /\ page_num <= Len(files[filepath].pages)
    /\ files[filepath].pages[page_num].ok
    /\ sections' = PageSections(files[filepath].pages[page_num].text, page_num) \o sections
    /\ page_num' = page_num + 1
    /\ UNCHANGED <<driver, callVars, files, filepath, pc, batchVars>>

\* lines 137, 141-176: one page extracted and grouped into sections
ParsePage ==
    /\ pc = "pages"
    /\ page_num <= Len(files[filepath].pages)
    /\ files[filepath].pages[page_num].ok
    /\ sections' = sections \o PageSections(files[filepath].pages[page_num].text, page_num)
    /\ page_num' = page_num + 1
    /\ UNCHANGED <<driver, callVars, files, filepath, pc, batchVars>>

\* line 177: return sections
ParseReturn ==
    /\ pc = "pages"
    /\ page_num > Len(files[filepath].pages)
    /\ pc' = "returned"
    /\ UNCHANGED <<driver, callVars, files, filepath, page_num, sections, batchVars>>

parse_pdf ==
    \/ ParseInvalidPath
    \/ ParsePdfinfoFails
    \/ ParseBegin
    \/ ParsePageFails
    \/ ParsePage
    \/ ParseReturn

-----------------------------------------------------------------------------
(* Numbers.  Ratios of counts are exact rationals <<n, d>> with d > 0, kept  *)
(* in lowest terms so that equal values are equal tuples.  The semantic      *)
(* signal goes through math.log and math.sqrt; it is computed in fixed point *)
(* with Scale units per 1.0.                                                 *)

Scale == 100

RECURSIVE GCD(_, _)
GCD(a, b) == IF b = 0 THEN a ELSE GCD(b, a % b)

Abs(x) == IF x < 0 THEN -x ELSE x

Rat(n, d) ==
    LET g == GCD(Abs(n), d) IN <<n \div g, d \div g>>

Zero == <<0, 1>>
One == <<1, 1>>

RLe(a, b) == a[1] * b[2] <= b[1] * a[2]
RLt(a, b) == a[1] * b[2] < b[1] * a[2]
RAdd(a, b) == Rat(a[1] * b[2] + b[1] * a[2], a[2] * b[2])
RSub(a, b) == Rat(a[1] * b[2] - b[1] * a[2], a[2] * b[2])
RMul(a, b) == Rat(a[1] * b[1], a[2] * b[2])
\* a / b for b > 0
RDiv(a, b) == Rat(a[1] * b[2], a[2] * b[1])

RECURSIVE RMax(_)
RMax(arr) == IF Len(arr) = 1 THEN arr[1]
             ELSE LET m == RMax(Tail(arr)) IN IF RLe(m, arr[1]) THEN arr[1] ELSE m

RECURSIVE RMin(_)
RMin(arr) == IF Len(arr) = 1 THEN arr[1]
             ELSE LET m == RMin(Tail(arr)) IN IF RLe(arr[1], m) THEN arr[1] ELSE m

\* math.log(k) in fixed point, k = 1..12
LogScaled(k) ==
    CASE k = 1 -> 0    [] k = 2 -> 69   [] k = 3 -> 110  [] k = 4 -> 139
      [] k = 5 -> 161  [] k = 6 -> 179  [] k = 7 -> 195  [] k = 8 -> 208
      [] k = 9 -> 220  [] k = 10 -> 230 [] k = 11 -> 240 [] k = 12 -> 248

RECURSIVE SqrtFrom(_, _)
\* Newton's iteration down to the integer square root
SqrtFrom(n, x) ==
    LET y == (x + n \div x) \div 2 IN
    IF y >= x THEN x ELSE SqrtFrom(n, y)

\* math.sqrt in fixed point: the argument carries Scale * Scale units per 1.0
SqrtScaled(n) == IF n = 0 THEN 0 ELSE SqrtFrom(n, n)

-----------------------------------------------------------------------------
(* content_analyzer: tokens, TF-IDF, cosine similarity *)

WEIGHT_SEMANTIC == 40      \* hundredths
WEIGHT_PERSONA == 25
WEIGHT_ACTION == 20
WEIGHT_CROSS_DOC == 15

ACTION_VERBS ==
    {"create", "design", "develop", "optimize", "optimise",
     "evaluate", "analyze", "analyse", "build", "identify", "summarize",
     "summarise", "implement", "compare", "assess", "improve", "discover",
     "predict", "plan", "execute", "monitor", "measure"}

\* re.sub(r"[^a-zA-Z0-9\s]", " ", text.lower()).split()
_tokenize(text) == Flatten([i \in 1..Len(text) |-> WordInfo(text[i]).tokens])

\* _clean_text(text).split()
CleanWords(text) == _tokenize(text)

Range(s) == {s[i] : i \in 1..Len(s)}

Count(words, w) == Cardinality({i \in 1..Len(words) : words[i] = w})

\* term frequency: c / total, kept as the pair of counts
_compute_tf(words) == [w \in Range(words) |-> <<Count(words, w), Len(words)>>]

\* idf[token] = log((1 + total_docs) / (1 + doc_count)) + 1.0
_compute_idf(doc_tokens) ==
    LET total_docs == Len(doc_tokens)
        terms == UNION {Range(doc_tokens[i]) : i \in 1..Len(doc_tokens)}
        doc_count(t) == Cardinality({i \in 1..Len(doc_tokens) : t \in Range(doc_tokens[i])})
    IN  [t \in terms |->
            LogScaled(1 + total_docs) - LogScaled(1 + doc_count(t)) + Scale]

\* {word: tf_val * idf.get(word, 0.0)}
_compute_tfidf_vector(tf, idf) ==
    [w \in DOMAIN tf |->
        (tf[w][1] * (IF w \in DOMAIN idf THEN idf[w] ELSE 0)) \div tf[w][2]]

RECURSIVE SumOver(_, _)
SumOver(S, f) ==
    IF S = {} THEN 0
    ELSE LET x == CHOOSE y \in S : TRUE IN f[x] + SumOver(S \ {x}, f)

\* sum of val * other.get(word, 0.0) over the items of vec
DotOver(vec, other) ==
    SumOver(DOMAIN vec,
            [w \in DOMAIN vec |-> vec[w] * (IF w \in DOMAIN other THEN other[w] ELSE 0)])

Norm(vec) == SqrtScaled(SumOver(DOMAIN vec, [w \in DOMAIN vec |-> vec[w] * vec[w]]))

_cosine_similarity(vec1, vec2) ==
    IF DOMAIN vec1 = {} \/ DOMAIN vec2 = {} THEN 0
    ELSE LET dot == IF Cardinality(DOMAIN vec1) < Cardinality(DOMAIN vec2)
                    THEN DotOver(vec1, vec2)
                    ELSE DotOver(vec2, vec1)
             norm1 == Norm(vec1)
             norm2 == Norm(vec2)
         IN  IF norm1 = 0 \/ norm2 = 0 THEN 0
             ELSE (dot * Scale) \div (norm1 * norm2)

\* one fixed-point similarity per section, as a rational over Scale
compute_semantic_similarity(secs, query) ==
    LET section_tokens == [i \in 1..Len(secs) |-> _tokenize(DictGet(secs[i], "text", <<>>))]
        query_tokens == _tokenize(query)
        idf == _compute_idf(<<query_tokens>> \o section_tokens)
        query_vec == _compute_tfidf_vector(_compute_tf(query_tokens), idf)
    IN  [i \in 1..Len(secs) |->
            Rat(_cosine_similarity(
                    _compute_tfidf_vector(_compute_tf(section_tokens[i]), idf),
                    query_vec), Scale)]

compute_persona_match(secs, persona_role) ==
    LET persona_words == Range(CleanWords(persona_role)) IN
    [i \in 1..Len(secs) |->
        LET sec_words == Range(CleanWords(DictGet(secs[i], "text", <<>>))) IN
        IF persona_words = {} \/ sec_words = {} THEN Zero
        ELSE Rat(Cardinality(persona_words \cap sec_words), Cardinality(persona_words))]

compute_actionability(secs) ==
    [i \in 1..Len(secs) |->
        LET words == CleanWords(DictGet(secs[i], "text", <<>>)) IN
        IF words = <<>> THEN Zero
        ELSE Rat(Cardinality({k \in 1..Len(words) : words[k] \in ACTION_VERBS}),
                 Len(words))]

\* mutant: every section with the title counts, also inside one document
compute_cross_document_importance_PerSection(secs) ==
    LET title(i) == DictGet(secs[i], "section_title", <<>>)
        freq(i) == Cardinality({k \in 1..Len(secs) : title(k) = title(i)})
        max_freq == IF secs = <<>> THEN 1
                    ELSE CHOOSE m \in {freq(i) : i \in 1..Len(secs)} :
                            \A i \in 1..Len(secs) : freq(i) <= m
    IN  [i \in 1..Len(secs) |-> Rat(freq(i), max_freq)]

compute_cross_document_importance(secs) ==
    LET title(i) == DictGet(secs[i], "section_title", <<>>)
        doc(i) == DictGet(secs[i], "document", "")
        freq(i) == Cardinality({doc(k) : k \in {k \in 1..Len(secs) : title(k) = title(i)}})
        max_freq == IF secs = <<>> THEN 1
                    ELSE CHOOSE m \in {freq(i) : i \in 1..Len(secs)} :
                            \A i \in 1..Len(secs) : freq(i) <= m
    IN  [i \in 1..Len(secs) |-> Rat(freq(i), max_freq)]

\* mutant: a constant array is lifted to the top of the range
normalise_ConstantOnes(arr) ==
    IF arr = <<>> THEN arr
    ELSE LET max_val == RMax(arr)
             min_val == RMin(arr)
         IN  IF max_val = min_val THEN [i \in 1..Len(arr) |-> One]
             ELSE [i \in 1..Len(arr) |->
                      RDiv(RSub(arr[i], min_val), RSub(max_val, min_val))]

\* mutant: the signal is used as computed, without min-max rescaling
normalise_Raw(arr) == arr

\* compute_relevance_scores.normalise
normalise(arr) ==
    IF arr = <<>> THEN arr
    ELSE LET max_val == RMax(arr)
             min_val == RMin(arr)
         IN  IF max_val = min_val THEN [i \in 1..Len(arr) |-> Zero]
             ELSE [i \in 1..Len(arr) |->
                      RDiv(RSub(arr[i], min_val), RSub(max_val, min_val))]

compute_relevance_scores(secs, pers, jb) ==
    LET persona_role == DictGet(pers, "role", <<>>)
        persona_desc == DictGet(pers, "description", <<>>)
        job_task == DictGet(jb, "task", <<>>)
        query == persona_role \o persona_desc \o job_task
        sem_norm == normalise(compute_semantic_similarity(secs, query))
        pers_norm == normalise(compute_persona_match(secs, persona_role \o persona_desc))
        act_norm == normalise(compute_actionability(secs))
        cross_norm == normalise(compute_cross_document_importance(secs))
    IN  [i \in 1..Len(secs) |->
            RAdd(RAdd(RMul(<<WEIGHT_SEMANTIC, 100>>, sem_norm[i]),
                      RMul(<<WEIGHT_PERSONA, 100>>, pers_norm[i])),
                 RAdd(RMul(<<WEIGHT_ACTION, 100>>, act_norm[i]),
                      RMul(<<WEIGHT_CROSS_DOC, 100>>, cross_norm[i])))]

-----------------------------------------------------------------------------
(* persona_matcher.rank_sections *)

\* list(zip(sections, scores))
Paired(secs, scs) == [i \in 1..Min(Len(secs), Len(scs)) |-> <<secs[i], scs[i]>>]

\* mutant: an element is placed in front of the elements of equal score
InsertDesc_BeforeTies(sorted, x) ==
    LET k == Cardinality({i \in 1..Len(sorted) : RLt(x[2], sorted[i][2])})
    IN  SubSeq(sorted, 1, k) \o <<x>> \o SubSeq(sorted, k + 1, Len(sorted))

\* x goes behind every element whose score is >= its own: a stable
\* descending order, as list.sort(key=..., reverse=True) keeps it
InsertDesc(sorted, x) ==
    LET k == Cardinality({i \in 1..Len(sorted) : RLe(x[2], sorted[i][2])})
    IN  SubSeq(sorted, 1, k) \o <<x>> \o SubSeq(sorted, k + 1, Len(sorted))

RECURSIVE SortDescFrom(_, _, _)
SortDescFrom(paired, i, sorted) ==
    IF i > Len(paired) THEN sorted
    ELSE SortDescFrom(paired, i + 1, InsertDesc(sorted, paired[i]))

\* paired.sort(key=lambda x: x[1], reverse=True)
SortDesc(paired) == SortDescFrom(paired, 1, <<>>)

\* mutant: enumerate(paired) without start=1
AnnotateRanks_FromZero(paired) ==
    [idx \in 1..Len(paired) |->
        DictSet(DictSet(paired[idx][1], "importance_rank", idx - 1),
                "_score", paired[idx][2])]

\* for idx, (section, score) in enumerate(paired, start=1): ...
AnnotateRanks(paired) ==
    [idx \in 1..Len(paired) |->
        DictSet(DictSet(paired[idx][1], "importance_rank", idx),
                "_score", paired[idx][2])]

\* lines 38-39: if not sections: return []
RankEmpty ==
    /\ pc = "rank_sections"
    /\ all_sections = <<>>
    /\ ranked' = <<>>
    /\ pc' = "ranked"
    /\ UNCHANGED <<driver, callVars, files, filepath, page_num, sections, input_json, docs_info,
                   doc_idx, persona, job, all_sections, scores, outputs, log>>

\* line 40
RankScore ==
    /\ pc = "rank_sections"
    /\ all_sections # <<>>
    /\ scores' = compute_relevance_scores(all_sections, persona, job)
    /\ pc' = "sort"
    /\ UNCHANGED <<driver, callVars, files, filepath, page_num, sections, input_json, docs_info,
                   doc_idx, persona, job, all_sections, ranked, outputs, log>>

\* lines 42-51
RankSort ==
    /\ pc = "sort"
    /\ ranked' = AnnotateRanks(SortDesc(Paired(all_sections, scores)))
    /\ pc' = "ranked"
    /\ UNCHANGED <<driver, callVars, files, filepath, page_num, sections, input_json, docs_info,
                   doc_idx, persona, job, all_sections, scores, outputs, log>>

rank_sections ==
    \/ RankEmpty
    \/ RankScore
    \/ RankSort

-----------------------------------------------------------------------------
(* The inputs of parse_pdf: one file with bounded page texts *)

Heading1 == <<"1.", "Introduction">>
Heading2 == <<"Conclusion">>
Body1 == <<"we", "optimize", "systems.">>
Body2 == <<"data", "for", "research">>
Blank == <<>>

RawLinePool == {Heading1, Heading2, Body1, Body2, Blank}

\* the pages with exactly n raw lines whose extraction succeeds, and (n = 0)
\* the page whose extraction fails
PageSpace(n) ==
    {[ok |-> TRUE, text |-> t] : t \in [1..n -> RawLinePool]}
        \cup (IF n = 0 THEN {[ok |-> FALSE, text |-> <<>>]} ELSE {})

PdfFile(ps) == [exists |-> TRUE, pdfinfo |-> TRUE, pages |-> ps]

NoFilename == "<no filename>"
NoDict == [k \in {} |-> <<>>]

\* the raw lines of all pages of a file
DocLines(f) == SumSeq([i \in 1..Len(f.pages) |-> Len(f.pages[i].text)])

SegInit ==
    /\ call = <<>>
    /\ result = <<>>
    /\ driver = "parse_pdf"
    /\ \/ /\ filepath = "a.pdf"
          /\ \/ files = ("a.pdf" :> PdfFile(<<>>))
             \/ files = ("a.pdf" :> [exists |-> TRUE, pdfinfo |-> FALSE, pages |-> <<>>])
             \/ files = ("a.pdf" :> [exists |-> FALSE, pdfinfo |-> FALSE, pages |-> <<>>])
       \/ /\ filepath = "notes.txt"
          /\ files = ("notes.txt" :> PdfFile(<<>>))
    /\ pc = "parse_pdf"
    /\ page_num = 0
    /\ sections = <<>>
    /\ input_json = "valid"
    /\ docs_info = <<>>
    /\ doc_idx = 0
    /\ persona = NoDict
    /\ job = NoDict
    /\ all_sections = <<>>
    /\ scores = <<>>
    /\ ranked = <<>>
    /\ outputs = <<>>
    /\ log = <<>>

\* the environment, before the call runs: the PDF under test gets one more
\* page, within the bounds
PreparePage ==
    /\ pc = "parse_pdf"
    /\ files[filepath].exists /\ files[filepath].pdfinfo
    /\ Len(files[filepath].pages) < MaxPages
    /\ \E n \in 0..(MaxDocLines - DocLines(files[filepath])) :
         \E p \in PageSpace(n) :
            files' = [files EXCEPT ![filepath].pages = Append(@, p)]
    /\ UNCHANGED <<driver, callVars, filepath, pc, page_num, sections, batchVars>>

SegNext ==
    \/ PreparePage
    \/ parse_pdf

SegSpec == SegInit /\ [][SegNext]_vars

-----------------------------------------------------------------------------
(* The inputs of rank_sections: bounded lists of annotated sections *)

MaxSections == 3

AnnotatedSection(title, text, n, doc) ==
    [section_title |-> title, text |-> text, page_number |-> n, document |-> doc]

SectionPool ==
    {AnnotatedSection(<<"Conclusion">>, Body1, 1, "a.pdf"),
     AnnotatedSection(<<"Conclusion">>, Body2, 2, "b.pdf"),
     AnnotatedSection(<<"Appendix">>, Body1, 1, "a.pdf"),
     AnnotatedSection(<<"Appendix">>, Body1 \o Body2, 1, "b.pdf"),
     AnnotatedSection(<<"1.", "Introduction">>, <<>>, 1, "a.pdf")}

PersonaPool ==
    {NoDict,
     [role |-> <<"data", "Researcher">>],
     [role |-> <<"Researcher">>, description |-> <<"research", "systems.">>]}

JobPool == {NoDict, [task |-> <<"optimize", "systems.">>]}

RankInit ==
    /\ call = <<>>
    /\ result = <<>>
    /\ driver = "rank_sections"
    /\ files = [n \in {} |-> PdfFile(<<>>)]
    /\ filepath = ""
    /\ pc = "rank_sections"
    /\ page_num = 0
    /\ sections = <<>>
    /\ input_json = "valid"
    /\ docs_info = <<>>
    /\ doc_idx = 0
    /\ persona \in PersonaPool
    /\ job \in JobPool
    /\ all_sections \in SeqsUpTo(SectionPool, MaxSections)
    /\ scores = <<>>
    /\ ranked = <<>>
    /\ outputs = <<>>
    /\ log = <<>>

RankNext == rank_sections

RankSpec == RankInit /\ [][RankNext]_vars

-----------------------------------------------------------------------------
(* document_intelligence: the Refiner *)

RECURSIVE SplitFrom(_, _, _)
\* re.split(r"(?<=[.!?])\s+", text): a part ends with each word that ends
\* in . ! or ?, the rest of the text is the last part
SplitFrom(text, i, part) ==
    IF i > Len(text) THEN (IF part = <<>> THEN <<>> ELSE <<part>>)
    ELSE IF WordInfo(text[i]).ends
    THEN <<Append(part, text[i])>> \o SplitFrom(text, i + 1, <<>>)
    ELSE SplitFrom(text, i + 1, Append(part, text[i]))

\* [p.strip() for p in parts if len(p.strip()) > 20]
_split_into_sentences(text) ==
    SelectSeq(SplitFrom(text, 1, <<>>), LAMBDA part : TextLen(part) > 20)

\* len(overlap) / len(set(words))
_score_sentence(sentence, query_terms) ==
    LET words == _tokenize(sentence) IN
    IF words = <<>> THEN Zero
    ELSE Rat(Cardinality(query_terms \cap Range(words)), Cardinality(Range(words)))

\* a refined_text: whole words and, where a slice cut a word, the number of
\* its characters that are left (0: only the space before it is left)
Excerpt(words, cut) == [words |-> words, cut |-> cut]

\* len(refined_text)
ExcerptLen(x) ==
    TextLen(x.words)
        + (IF x.cut = <<>> THEN 0
           ELSE x.cut[2] + (IF x.words = <<>> THEN 0 ELSE 1))

RECURSIVE WordsWithin(_, _, _)
\* how many whole words of text lie within its first n characters
WordsWithin(text, k, n) ==
    IF k < Len(text) /\ TextLen(SubSeq(text, 1, k + 1)) <= n
    THEN WordsWithin(text, k + 1, n)
    ELSE k

\* mutant: the fallback returns the whole text
TakeChars_Whole(text, n) == Excerpt(text, <<>>)

\* text[:n]
TakeChars(text, n) ==
    LET k == WordsWithin(text, 0, n)
        used == TextLen(SubSeq(text, 1, k))
    IN  IF k = Len(text) \/ used = n THEN Excerpt(SubSeq(text, 1, k), <<>>)
        ELSE IF k = 0 THEN Excerpt(<<>>, <<text[1], n>>)
        ELSE Excerpt(SubSeq(text, 1, k), <<text[k + 1], n - used - 1>>)

\* mutant: the sentences stay in the order of the text
SortedSentences_Unsorted(sentences, query_terms) ==
    [i \in 1..Len(sentences) |->
        <<sentences[i], _score_sentence(sentences[i], query_terms)>>]

\* scored.sort(key=lambda x: x[1], reverse=True)
SortedSentences(sentences, query_terms) ==
    SortDesc([i \in 1..Len(sentences) |->
                <<sentences[i], _score_sentence(sentences[i], query_terms)>>])

\* how many sentences an excerpt is joined from
TOP_SENTENCES == 2

\* the excerpt of one section (lines 74-85)
RefinedText(section, query_terms) ==
    LET text == DictGet(section, "text", <<>>)
        sentences == _split_into_sentences(text)
    IN  IF sentences = <<>> THEN TakeChars(text, 300)
        ELSE LET scored == SortedSentences(sentences, query_terms)
                 top == SubSeq(scored, 1, Min(TOP_SENTENCES, Len(scored)))
             IN  Excerpt(Flatten([i \in 1..Len(top) |-> top[i][1]]), <<>>)

\* mutant: every section handed in is refined, whatever top_n
refine_subsections_All(ranked_sections, pers, jb, top_n) ==
    LET query == DictGet(pers, "role", <<>>) \o DictGet(pers, "description", <<>>)
                    \o DictGet(jb, "task", <<>>)
        query_terms == Range(_tokenize(query))
    IN  [i \in 1..Len(ranked_sections) |->
            [document |-> DictGet(ranked_sections[i], "document", NoFilename),
             refined_text |-> RefinedText(ranked_sections[i], query_terms),
             page_number |-> DictGet(ranked_sections[i], "page_number", 0)]]

refine_subsections(ranked_sections, pers, jb, top_n) ==
    LET query == DictGet(pers, "role", <<>>) \o DictGet(pers, "description", <<>>)
                    \o DictGet(jb, "task", <<>>)
        query_terms == Range(_tokenize(query))
        top == SubSeq(ranked_sections, 1, Min(top_n, Len(ranked_sections)))
    IN  [i \in 1..Len(top) |->
            [document |-> DictGet(top[i], "document", NoFilename),
             refined_text |-> RefinedText(top[i], query_terms),
             page_number |-> DictGet(top[i], "page_number", 0)]]

-----------------------------------------------------------------------------
(* auto_processor.detect_persona_and_job *)

\* the keyword groups of the if/elif chain that occur inside word.lower()
KeywordsIn(w) ==
    CASE w \in {"research", "Researcher", "literature"} -> {"research"}
      [] w \in {"Student", "exam"} -> {"student"}
      [] w \in {"Analyst"} -> {"analysis"}
      [] w \in {"patient"} -> {"patient"}
      [] OTHER -> {}

detect_persona_and_job(full_text) ==
    LET found == UNION {KeywordsIn(full_text[i]) : i \in 1..Len(full_text)} IN
    IF "research" \in found
    THEN <<[role |-> <<"Researcher">>],
           [task |-> <<"Prepare", "a", "literature", "review", "of", "the",
                       "document's", "contributions">>]>>
    ELSE IF "student" \in found
    THEN <<[role |-> <<"Student">>],
           [task |-> <<"Identify", "and", "study", "the", "key", "concepts",
                       "for", "exam", "preparation">>]>>
    ELSE IF "analysis" \in found
    THEN <<[role |-> <<"Business", "Analyst">>],
           [task |-> <<"Extract", "insights", "and", "analyse", "trends", "from",
                       "the", "document">>]>>
    ELSE IF "patient" \in found
    THEN <<[role |-> <<"Healthcare", "Professional">>],
           [task |-> <<"Summarise", "clinical", "information", "relevant", "to",
                       "patient", "care">>]>>
    ELSE <<[role |-> <<"Reader">>],
           [task |-> <<"Summarise", "the", "key", "sections", "of", "the", "document">>]>>

\* dict.update
DictUpdate(d, e) == [k \in DOMAIN d \cup DOMAIN e |-> IF k \in DOMAIN e THEN e[k] ELSE d[k]]

-----------------------------------------------------------------------------
(* What both drivers build from the ranked sections and write *)

\* " ".join of the section texts
FullText(secs) == Flatten([i \in 1..Len(secs) |-> DictGet(secs[i], "text", <<>>)])

\* sec_copy = sec.copy(); sec_copy["document"] = filename, for every section
Annotate(secs, filename) ==
    [i \in 1..Len(secs) |-> DictSet(secs[i], "document", filename)]

OutputData(input_documents, pers, jb, rk) ==
    LET top_n == Min(5, Len(rk))
        top_sections == SubSeq(rk, 1, top_n)
    IN  [metadata |-> [input_documents |-> input_documents,
                       persona |-> DictGet(pers, "role", <<>>),
                       job_to_be_done |-> DictGet(jb, "task", <<>>)],
         extracted_sections |->
            [i \in 1..top_n |->
                [document |-> DictGet(top_sections[i], "document", NoFilename),
                 section_title |-> DictGet(top_sections[i], "section_title", <<>>),
                 importance_rank |-> DictGet(top_sections[i], "importance_rank", 0),
                 page_number |-> DictGet(top_sections[i], "page_number", 0)]],
         subsection_analysis |-> refine_subsections(top_sections, pers, jb, top_n)]

-----------------------------------------------------------------------------
(* main.process_input_file *)

\* lines 49-54: the input is not JSON
LoadInvalidJson ==
    /\ driver = "main"
    /\ pc = "process_input_file"
    /\ input_json = "invalid"
    /\ log' = Append(log, <<"invalid JSON">>)
    /\ pc' = "done"
    /\ UNCHANGED <<driver, callVars, files, filepath, page_num, sections, input_json, docs_info,
                   doc_idx, persona, job, all_sections, scores, ranked, outputs>>

\* lines 58-61: no documents specified
LoadNoDocuments ==
    /\ driver = "main"
    /\ pc = "process_input_file"
    /\ input_json = "valid"
    /\ docs_info = <<>>
    /\ log' = Append(log, <<"no documents specified">>)
    /\ pc' = "done"
    /\ UNCHANGED <<driver, callVars, files, filepath, page_num, sections, input_json, docs_info,
                   doc_idx, persona, job, all_sections, scores, ranked, outputs>>

\* lines 55-66: descriptors read, all_sections = [], the document loop starts
LoadInput ==
    /\ driver = "main"
    /\ pc = "process_input_file"
    /\ input_json = "valid"
    /\ docs_info # <<>>
    /\ all_sections' = <<>>
    /\ doc_idx' = 1
    /\ pc' = "docs"
    /\ UNCHANGED <<driver, callVars, files, filepath, page_num, sections, input_json, docs_info,
                   persona, job, scores, ranked, outputs, log>>

\* lines 67-69: an entry without a filename is passed over
SkipNoFilename ==
    /\ driver = "main"
    /\ pc = "docs"
    /\ doc_idx <= Len(docs_info)
    /\ docs_info[doc_idx] = NoFilename
    /\ doc_idx' = doc_idx + 1
    /\ UNCHANGED <<driver, callVars, files, filepath, pc, page_num, sections, input_json, docs_info,
                   persona, job, all_sections, scores, ranked, outputs, log>>

\* lines 70-72: sections = parse_pdf(pdf_path)
CallParsePdf ==
    /\ driver = "main"
    /\ pc = "docs"
    /\ doc_idx <= Len(docs_info)
    /\ docs_info[doc_idx] # NoFilename
    /\ filepath' = docs_info[doc_idx]
    /\ pc' = "parse_pdf"
    /\ UNCHANGED <<driver, callVars, files, page_num, sections, input_json, docs_info, doc_idx,
                   persona, job, all_sections, scores, ranked, outputs, log>>

\* mutant: the exception of one document ends the batch item (it reaches
\* the handler of main())
OnDocumentError_Abort ==
    /\ log' = Append(log, <<"Error processing", filepath>>)
    /\ pc' = "done"
    /\ UNCHANGED doc_idx

\* lines 73-75, and auto_processor lines 147-148: the error is printed and
\* the loop goes on with the next document
OnDocumentError ==
    /\ log' = Append(log, <<"Error processing", filepath>>)
    /\ doc_idx' = doc_idx + 1
    /\ pc' = "docs"

ParseFailed ==
    /\ driver = "main"
    /\ pc = "raised"
    /\ OnDocumentError
    /\ UNCHANGED <<driver, callVars, files, filepath, page_num, sections, input_json, docs_info,
                   persona, job, all_sections, scores, ranked, outputs>>

\* lines 76-82: the sections of the document are annotated and accumulated
CollectSections ==
    /\ driver = "main"
    /\ pc = "returned"
    /\ all_sections' = all_sections \o Annotate(sections, filepath)
    /\ doc_idx' = doc_idx + 1
    /\ pc' = "docs"
    /\ UNCHANGED <<driver, callVars, files, filepath, page_num, sections, input_json, docs_info,
                   persona, job, scores, ranked, outputs, log>>

\* lines 83-85: nothing was extracted, the item is skipped
NoSections ==
    /\ driver = "main"
    /\ pc = "docs"
    /\ doc_idx > Len(docs_info)
    /\ all_sections = <<>>
    /\ log' = Append(log, <<"No sections extracted">>)
    /\ pc' = "done"
    /\ UNCHANGED <<driver, callVars, files, filepath, page_num, sections, input_json, docs_info,
                   doc_idx, persona, job, all_sections, scores, ranked, outputs>>

\* not persona.get("role")
Missing(d, k) == DictGet(d, k, <<>>) = <<>>

\* lines 86-99: missing descriptors are detected, then rank_sections is called
DetectAndRank ==
    /\ driver = "main"
    /\ pc = "docs"
    /\ doc_idx > Len(docs_info)
    /\ all_sections # <<>>
    /\ LET detected == detect_persona_and_job(FullText(all_sections))
           needed == Missing(persona, "role") \/ Missing(job, "task")
       IN  /\ persona' = IF needed /\ Missing(persona, "role")
                         THEN DictUpdate(persona, detected[1]) ELSE persona
           /\ job' = IF needed /\ Missing(job, "task")
                     THEN DictUpdate(job, detected[2]) ELSE job
    /\ pc' = "rank_sections"
    /\ UNCHANGED <<driver, callVars, files, filepath, page_num, sections, input_json, docs_info,
                   doc_idx, all_sections, scores, ranked, outputs, log>>

\* lines 100-133: the output of the batch item is assembled and written
WriteOutput ==
    /\ driver = "main"
    /\ pc = "ranked"
    /\ outputs' = Append(outputs, OutputData(docs_info, persona, job, ranked))
    /\ pc' = "done"
    /\ UNCHANGED <<driver, callVars, files, filepath, page_num, sections, input_json, docs_info,
                   doc_idx, persona, job, all_sections, scores, ranked, log>>

process_input_file ==
    \/ LoadInvalidJson
    \/ LoadNoDocuments
    \/ LoadInput
    \/ SkipNoFilename
    \/ CallParsePdf
    \/ ParseFailed
    \/ CollectSections
    \/ NoSections
    \/ DetectAndRank
    \/ WriteOutput

-----------------------------------------------------------------------------
(* auto_processor.process_directory and process_pdf *)

\* line 143: an entry that is no PDF is passed over
AutoSkipEntry ==
    /\ driver = "auto"
    /\ pc = "docs"
    /\ doc_idx <= Len(docs_info)
    /\ ~EndsWithPdf(docs_info[doc_idx])
    /\ doc_idx' = doc_idx + 1
    /\ UNCHANGED <<driver, callVars, files, filepath, pc, page_num, sections, input_json, docs_info,
                   persona, job, all_sections, scores, ranked, outputs, log>>

\* lines 144-146, 84: process_pdf calls parse_pdf
AutoCallParsePdf ==
    /\ driver = "auto"
    /\ pc = "docs"
    /\ doc_idx <= Len(docs_info)
    /\ EndsWithPdf(docs_info[doc_idx])
    /\ filepath' = docs_info[doc_idx]
    /\ pc' = "parse_pdf"
    /\ UNCHANGED <<driver, callVars, files, page_num, sections, input_json, docs_info, doc_idx,
                   persona, job, all_sections, scores, ranked, outputs, log>>

\* lines 147-148
AutoParseFailed ==
    /\ driver = "auto"
    /\ pc = "raised"
    /\ OnDocumentError
    /\ UNCHANGED <<driver, callVars, files, filepath, page_num, sections, input_json, docs_info,
                   persona, job, all_sections, scores, ranked, outputs>>

\* lines 85-93: persona and job are detected, the sections are annotated in
\* place and handed to rank_sections
AutoAnnotate ==
    /\ driver = "auto"
    /\ pc = "returned"
    /\ LET detected == detect_persona_and_job(FullText(sections)) IN
         /\ persona' = detected[1]
         /\ job' = detected[2]
    /\ sections' = Annotate(sections, filepath)
    /\ all_sections' = sections'
    /\ pc' = "rank_sections"
    /\ UNCHANGED <<driver, callVars, files, filepath, page_num, input_json, docs_info,
                   doc_idx, scores, ranked, outputs, log>>

\* lines 94-128: the output of the PDF is assembled and written
AutoWriteOutput ==
    /\ driver = "auto"
    /\ pc = "ranked"
    /\ outputs' = Append(outputs, OutputData(<<filepath>>, persona, job, ranked))
    /\ doc_idx' = doc_idx + 1
    /\ pc' = "docs"
    /\ UNCHANGED <<driver, callVars, files, filepath, page_num, sections, input_json, docs_info,
                   persona, job, all_sections, scores, ranked, log>>

\* line 142: the listing is exhausted
AutoDone ==
    /\ driver = "auto"
    /\ pc = "docs"
    /\ doc_idx > Len(docs_info)
    /\ pc' = "done"
    /\ UNCHANGED <<driver, callVars, files, filepath, page_num, sections, input_json, docs_info,
                   doc_idx, persona, job, all_sections, scores, ranked, outputs, log>>

process_directory ==
    \/ AutoSkipEntry
    \/ AutoCallParsePdf
    \/ AutoParseFailed
    \/ AutoAnnotate
    \/ AutoWriteOutput
    \/ AutoDone

-----------------------------------------------------------------------------
(* The inputs of the drivers: a fixed input directory and bounded batches *)

MaxDocs == 3

OkPage(lines) == [ok |-> TRUE, text |-> lines]

InputDir ==
    [name \in {"a.pdf", "b.pdf", "c.pdf", "D.PDF", "notes.txt"} |->
        \* the first page cannot be converted
        CASE name = "a.pdf" -> PdfFile(<<[ok |-> FALSE, text |-> <<>>],
                                         OkPage(<<Heading2, Body1>>)>>)
          [] name = "b.pdf" -> PdfFile(<<OkPage(<<Heading2, Blank, Body2>>),
                                         OkPage(<<Body1, Body2>>)>>)
          \* damaged: pdfinfo fails
          [] name = "c.pdf" -> [exists |-> TRUE, pdfinfo |-> FALSE, pages |-> <<>>]
          \* a title page only: no section comes out of it
          [] name = "D.PDF" -> PdfFile(<<OkPage(<<Heading1>>)>>)
          [] name = "notes.txt" -> PdfFile(<<OkPage(<<Body1>>)>>)]

\* sequences over S without repetition, of length at most n
RECURSIVE Listings(_, _)
Listings(S, n) ==
    IF n = 0 THEN {<<>>}
    ELSE {<<>>} \cup UNION {{<<x>> \o r : r \in Listings(S \ {x}, n - 1)} : x \in S}

BatchInit ==
    /\ call = <<>>
    /\ result = <<>>
    /\ files = InputDir
    /\ filepath = ""
    /\ page_num = 0
    /\ sections = <<>>
    /\ all_sections = <<>>
    /\ scores = <<>>
    /\ ranked = <<>>
    /\ outputs = <<>>
    /\ log = <<>>
    /\ \/ /\ driver = "main"
          /\ pc = "process_input_file"
          /\ doc_idx = 0
          /\ \/ /\ input_json = "valid"
                /\ docs_info \in SeqsUpTo({"a.pdf", "b.pdf", "c.pdf", "D.PDF",
                                           "missing.pdf", NoFilename}, MaxDocs)
                /\ persona \in {NoDict, [role |-> <<"data", "Researcher">>]}
                /\ job \in JobPool
             \/ /\ input_json = "invalid"
                /\ docs_info = <<>>
                /\ persona = NoDict
                /\ job = NoDict
       \/ /\ driver = "auto"
          /\ pc = "docs"
          /\ doc_idx = 1
          /\ input_json = "valid"
          /\ docs_info \in Listings(DOMAIN InputDir, MaxDocs)
          /\ persona = NoDict
          /\ job = NoDict

BatchNext ==
    \/ process_input_file
    \/ process_directory
    \/ parse_pdf
    \/ rank_sections

BatchSpec == BatchInit /\ [][BatchNext]_vars

-----------------------------------------------------------------------------
(* Properties of the Segmenter, checked under SegSpec *)

Pages == files[filepath].pages

\* the pages the loop has finished with
DonePages == IF pc \in {"pages", "returned"} THEN 1..(page_num - 1) ELSE {}

SectionsOfPage(p) == SelectSeq(sections, LAMBDA s : s.page_number = p)

HasHeading(lines) == \E i \in 1..Len(lines) : _is_heading(lines[i])

\* C3: every Section produced by parse_pdf has a non-empty text (a heading
\* directly followed by another heading yields no Section).
C3_NoEmptyBody == \A i \in 1..Len(sections) : sections[i].text # <<>>

\* C4: every successfully extracted page with at least one non-empty line
\* contributes at least one Section carrying its page number.
C4_NoPageDropped ==
    \A p \in DonePages :
        (Pages[p].ok /\ NonEmptyLines(Pages[p].text) # <<>>)
            => SectionsOfPage(p) # <<>>

\* C5: a page N with a non-empty line and no heading line yields exactly one
\* Section, titled "Page N", with page_number N and the text of all the
\* page's non-empty lines in reading order.
C5_SyntheticSection ==
    \A p \in DonePages :
        LET lines == SelectSeq(Pages[p].text, LAMBDA ln : Len(ln) > 0) IN
        (Pages[p].ok /\ lines # <<>> /\ ~HasHeading(lines))
            => SectionsOfPage(p) =
                 <<[section_title |-> <<"Page", ToString(p)>>,
                    text |-> Flatten(lines),
                    page_number |-> p]>>

C5_Witness ==
    /\ pc = "returned"
    /\ \E p \in DonePages :
         /\ Pages[p].ok
         /\ Len(NonEmptyLines(Pages[p].text)) >= 2
         /\ Len(NonEmptyLines(Pages[p].text)) < Len(Pages[p].text)
         /\ NonEmptyLines(Pages[p].text)[1] # NonEmptyLines(Pages[p].text)[2]
         /\ ~HasHeading(Pages[p].text)
         /\ Len(SectionsOfPage(p)) = 1

\* the indexes of the heading lines of a page, in reading order
HeadingIndexes(lines) ==
    SelectSeq([i \in 1..Len(lines) |-> i], LAMBDA i : _is_heading(lines[i]))

\* for each heading line of the page, in reading order: the heading as title
\* and the lines up to the next heading (or the end of the page) as text
HeadedSpans(lines, p) ==
    LET H == HeadingIndexes(lines) IN
    [j \in 1..Len(H) |->
        [section_title |-> lines[H[j]],
         text |-> Flatten(SubSeq(lines, H[j] + 1,
                                 IF j < Len(H) THEN H[j + 1] - 1 ELSE Len(lines))),
         page_number |-> p]]

IsPrefix(s, t) == Len(s) <= Len(t) /\ s = SubSeq(t, 1, Len(s))

\* C6: parse_pdf returns sections in page order and, within a page, in
\* reading order: page_number never decreases along the list, every section
\* is made of lines of the page it names, and the sections of one page follow
\* the order of their heading lines on that page.
C6_PageAndReadingOrder ==
    /\ \A i \in 1..(Len(sections) - 1) :
          sections[i].page_number <= sections[i + 1].page_number
    /\ \A i \in 1..Len(sections) :
          /\ sections[i].page_number \in DonePages
          /\ Pages[sections[i].page_number].ok
    /\ \A p \in DonePages :
          LET lines == SelectSeq(Pages[p].text, LAMBDA ln : Len(ln) > 0)
              got == SectionsOfPage(p)
          IN  Pages[p].ok =>
                IF HasHeading(lines)
                THEN LET spans == HeadedSpans(lines, p)
                     IN  /\ IsPrefix(got, spans)
                         /\ Len(got) >= Len(spans) - 1
                ELSE \A i \in 1..Len(got) : got[i].text = Flatten(lines)

C6_Witness ==
    /\ pc = "returned"
    /\ Len(sections) >= 3
    /\ sections[1].page_number = 1
    /\ sections[2].page_number = 1
    /\ sections[1].section_title # sections[2].section_title
    /\ sections[3].page_number = 2

\* C7: a page whose extraction fails contributes no section, the call goes
\* on with the remaining pages and returns exactly the sections of the pages
\* that were extracted; it does not fail for the document.
C7_FailedPageSkipped ==
    /\ (Exists(filepath) /\ EndsWithPdf(filepath) /\ files[filepath].pdfinfo)
          => pc # "raised"
    /\ pc = "returned" => DonePages = 1..Len(Pages)
    /\ \A p \in DonePages :
          SectionsOfPage(p) =
              IF Pages[p].ok THEN PageSections(Pages[p].text, p) ELSE <<>>

C7_Witness ==
    /\ pc = "returned"
    /\ Len(Pages) = 2
    /\ ~Pages[1].ok
    /\ Pages[2].ok
    /\ Len(sections) >= 1

-----------------------------------------------------------------------------
(* Properties of the Ranker and the Relevance Scorer, checked under RankSpec *)

\* a ranked record without the fields rank_sections adds
Strip(d) == [k \in DOMAIN d \ {"importance_rank", "_score"} |-> d[k]]

Occurrences(s, x) == Cardinality({i \in 1..Len(s) : s[i] = x})

Returned == pc = "ranked" /\ all_sections # <<>>

\* C1: for a non-empty input, rank_sections returns a permutation of the
\* input records, the record at position i carries importance_rank = i, and
\* the scores never increase along the list.
C1_RankedPermutation ==
    Returned =>
        LET stripped == [i \in 1..Len(ranked) |-> Strip(ranked[i])] IN
        /\ Len(ranked) = Len(all_sections)
        /\ \A i \in 1..Len(ranked) : ranked[i].importance_rank = i
        /\ \A x \in Range(all_sections) \cup Range(stripped) :
              Occurrences(stripped, x) = Occurrences(all_sections, x)
        /\ \A i \in 1..(Len(ranked) - 1) : RLe(ranked[i + 1]._score, ranked[i]._score)

C1_Witness ==
    /\ Returned
    /\ Len(ranked) = 3
    /\ Strip(ranked[1]) = all_sections[3]
    /\ RLt(ranked[2]._score, ranked[1]._score)
    /\ RLt(ranked[3]._score, ranked[2]._score)

\* C2: ranking is stable: the input sections of equal score keep their input
\* order in the output.
C2_StableRanking ==
    Returned =>
        \A v \in Range(scores) :
            LET ins == {i \in 1..Len(all_sections) : scores[i] = v}
                inOrder == SelectSeq([i \in 1..Len(all_sections) |-> i],
                                     LAMBDA i : i \in ins)
                outOrder == SelectSeq(ranked, LAMBDA r : r._score = v)
            IN  /\ Len(outOrder) = Len(inOrder)
                /\ \A k \in 1..Len(inOrder) :
                      Strip(outOrder[k]) = all_sections[inOrder[k]]

C2_Witness ==
    /\ Returned
    /\ \E i, j, k \in 1..Len(all_sections) :
         /\ i < j
         /\ scores[i] = scores[j]
         /\ all_sections[i] # all_sections[j]
         /\ RLt(scores[i], scores[k])

\* min-max rescaling of every entry, stated from the extremes
MinMax(arr) ==
    LET hi == CHOOSE x \in Range(arr) : \A y \in Range(arr) : RLe(y, x)
        lo == CHOOSE x \in Range(arr) : \A y \in Range(arr) : RLe(x, y)
    IN  [i \in 1..Len(arr) |->
            IF hi = lo THEN <<0, 1>>
            ELSE Rat((arr[i][1] * lo[2] - lo[1] * arr[i][2]) * hi[2],
                     (hi[1] * lo[2] - lo[1] * hi[2]) * arr[i][2])]

\* C10: compute_relevance_scores returns one score per input section, in
\* input order, each equal to 0.40*semantic + 0.25*persona + 0.20*action +
\* 0.15*crossDoc over the min-max-normalised signals, and each in [0,1],
\* also when role, description or task are missing.
C10_WeightedScores ==
    (pc \in {"sort", "ranked"} /\ all_sections # <<>>) =>
        LET role == IF "role" \in DOMAIN persona THEN persona.role ELSE <<>>
            desc == IF "description" \in DOMAIN persona THEN persona.description ELSE <<>>
            task == IF "task" \in DOMAIN job THEN job.task ELSE <<>>
            s == MinMax(compute_semantic_similarity(all_sections, role \o desc \o task))
            p == MinMax(compute_persona_match(all_sections, role \o desc))
            a == MinMax(compute_actionability(all_sections))
            c == MinMax(compute_cross_document_importance(all_sections))
        IN  /\ Len(scores) = Len(all_sections)
            /\ \A i \in 1..Len(scores) :
                  /\ scores[i][2] > 0
                  /\ 0 <= scores[i][1] /\ scores[i][1] <= scores[i][2]
                  /\ scores[i] =
                       RAdd(RAdd(Rat(WEIGHT_SEMANTIC * s[i][1], 100 * s[i][2]),
                                 Rat(WEIGHT_PERSONA * p[i][1], 100 * p[i][2])),
                            RAdd(Rat(WEIGHT_ACTION * a[i][1], 100 * a[i][2]),
                                 Rat(WEIGHT_CROSS_DOC * c[i][1], 100 * c[i][2])))

C10_Witness ==
    /\ pc = "sort"
    /\ "role" \notin DOMAIN persona
    /\ Len(scores) = 3
    /\ \E i, j \in 1..Len(scores) :
         /\ RLt(<<0, 1>>, scores[i])
         /\ RLt(scores[i], scores[j])
         /\ RLt(scores[j], <<1, 1>>)

-----------------------------------------------------------------------------
(* Properties of the drivers, checked under BatchSpec *)

\* a document parse_pdf returns sections for (possibly none)
Parses(name) ==
    /\ name # NoFilename
    /\ EndsWithPdf(name)
    /\ Exists(name)
    /\ files[name].pdfinfo

\* the sections of a document, page after page, the failed pages left out
DocSections(name) ==
    LET ps == files[name].pages IN
    Flatten([p \in 1..Len(ps) |->
                IF ps[p].ok THEN PageSections(ps[p].text, p) ELSE <<>>])

\* what the documents of the batch contribute, in the order of docs_info
BatchSections ==
    Flatten([k \in 1..Len(docs_info) |->
                IF Parses(docs_info[k])
                THEN Annotate(DocSections(docs_info[k]), docs_info[k])
                ELSE <<>>])

BatchDone == pc = "done" /\ input_json = "valid" /\ docs_info # <<>>

\* C8: a document that cannot be parsed does not end the batch.  In
\* process_input_file every document is visited, all_sections holds the
\* sections of every document that parses, in the order of the input
\* documents, and when there are any they are ranked and one output is
\* written from them; in process_directory every PDF that parses gets its
\* output, in the order of the listing.
C8_FailureIsolated ==
    /\ (driver = "main" /\ BatchDone) =>
          /\ doc_idx = Len(docs_info) + 1
          /\ all_sections = BatchSections
          /\ all_sections # <<>> =>
                /\ Len(outputs) = 1
                /\ outputs[1].metadata.input_documents = docs_info
                /\ Len(ranked) = Len(all_sections)
                /\ \A x \in Range(all_sections) :
                      Occurrences([i \in 1..Len(ranked) |-> Strip(ranked[i])], x)
                          = Occurrences(all_sections, x)
                /\ outputs[1].extracted_sections =
                      [i \in 1..Min(5, Len(ranked)) |->
                          [document |-> ranked[i].document,
                           section_title |-> ranked[i].section_title,
                           importance_rank |-> i,
                           page_number |-> ranked[i].page_number]]
    /\ (driver = "auto" /\ pc = "done") =>
          [i \in 1..Len(outputs) |-> outputs[i].metadata.input_documents]
              = [i \in 1..Len(SelectSeq(docs_info, Parses)) |->
                    <<SelectSeq(docs_info, Parses)[i]>>]

C8_Witness ==
    /\ driver = "main"
    /\ BatchDone
    /\ docs_info = <<"a.pdf", "c.pdf", "b.pdf">>
    /\ log = <<<<"Error processing", "c.pdf">>>>
    /\ Len(outputs) = 1
    /\ [i \in 1..3 |-> all_sections[i].document] = <<"a.pdf", "b.pdf", "b.pdf">>

\* C9: an output is written only from a non-empty ranked set of sections:
\* a batch item no document of which yields a section leaves no output.
C9_NoOutputWithoutSections ==
    \A i \in 1..Len(outputs) : outputs[i].extracted_sections # <<>>

-----------------------------------------------------------------------------
(* compute_relevance_scores.normalise called on its own, on bounded arrays *)

MaxArr == 3

\* raw signal values
SignalPool == {<<0, 1>>, <<1, 3>>, <<1, 2>>, <<1, 1>>, <<3, 2>>}

NormInit ==
    /\ driver = "normalise"
    /\ pc = "call"
    /\ call \in SeqsUpTo(SignalPool, MaxArr)
    /\ result = <<>>
    /\ files = [n \in {} |-> PdfFile(<<>>)]
    /\ filepath = ""
    /\ page_num = 0
    /\ sections = <<>>
    /\ input_json = "valid"
    /\ docs_info = <<>>
    /\ doc_idx = 0
    /\ persona = NoDict
    /\ job = NoDict
    /\ all_sections = <<>>
    /\ scores = <<>>
    /\ ranked = <<>>
    /\ outputs = <<>>
    /\ log = <<>>

CallNormalise ==
    /\ driver = "normalise"
    /\ pc = "call"
    /\ result' = normalise(call)
    /\ pc' = "result"
    /\ UNCHANGED <<driver, call, files, filepath, page_num, sections, batchVars>>

NormNext == CallNormalise

NormSpec == NormInit /\ [][NormNext]_vars

NormReturned == driver = "normalise" /\ pc = "result"

\* C11: normalise returns an array of the length of its argument with every
\* entry in [0,1]; an array whose values are all equal (a one-element array
\* too) comes back as zeros only; in any other array the smallest value goes
\* to 0 and the largest to 1.
C11_NormaliseRange ==
    NormReturned =>
        /\ Len(result) = Len(call)
        /\ \A i \in 1..Len(result) :
              /\ result[i][2] > 0
              /\ RLe(Zero, result[i]) /\ RLe(result[i], One)
        /\ (\A i, j \in 1..Len(call) : call[i] = call[j]) =>
              \A i \in 1..Len(result) : result[i] = Zero
        /\ \A i, j \in 1..Len(call) :
              RLt(call[i], call[j]) =>
                  /\ RLt(result[i], result[j])
                  /\ (\A k \in 1..Len(call) : RLe(call[i], call[k])) => result[i] = Zero
                  /\ (\A k \in 1..Len(call) : RLe(call[k], call[j])) => result[j] = One

C11_Witness ==
    /\ NormReturned
    /\ call = <<<<1, 2>>, <<1, 2>>, <<1, 2>>>>
    /\ result = <<Zero, Zero, Zero>>

-----------------------------------------------------------------------------
(* Floating point: what math.sqrt, +, * and / of content_analyzer return.
   A float is <<m, e>>, the number m * 2^e, with m = 0 or a mantissa of
   exactly FloatBits bits; every operation rounds its exact result to the
   nearest float, ties to the even mantissa.  A CPython float has 53
   mantissa bits; FloatBits bounds the mantissa of the model. *)

FloatBits == 8

RECURSIVE Pow2(_)
Pow2(k) == IF k = 0 THEN 1 ELSE 2 * Pow2(k - 1)

RECURSIVE BitLen(_)
BitLen(n) == IF n = 0 THEN 0 ELSE 1 + BitLen(n \div 2)

FZero == <<0, 0>>
FOne == <<Pow2(FloatBits - 1), 1 - FloatBits>>

\* the float nearest to n * 2^e
FRound(n, e) ==
    IF n = 0 THEN FZero
    ELSE LET k == BitLen(n) - FloatBits IN
         IF k <= 0 THEN <<n * Pow2(0 - k), e + k>>
         ELSE LET q == n \div Pow2(k)
                  r == n % Pow2(k)
                  half == Pow2(k - 1)
                  q2 == IF r > half \/ (r = half /\ q % 2 = 1) THEN q + 1 ELSE q
              IN  IF q2 = Pow2(FloatBits) THEN <<Pow2(FloatBits - 1), e + k + 1>>
                  ELSE <<q2, e + k>>

\* the float of the integer n
Float(n) == FRound(n, 0)

FMul(a, b) == FRound(a[1] * b[1], a[2] + b[2])

FAdd(a, b) ==
    IF a[1] = 0 THEN b
    ELSE IF b[1] = 0 THEN a
    ELSE LET hi == IF a[2] >= b[2] THEN a ELSE b
             lo == IF a[2] >= b[2] THEN b ELSE a
             d == hi[2] - lo[2]
         IN  \* lo is below half a unit in the last place of hi
             IF d > FloatBits + 1 THEN hi
             ELSE FRound(hi[1] * Pow2(d) + lo[1], lo[2])

\* a / b for b > 0; the lowest bit records an inexact quotient
FDiv(a, b) ==
    IF a[1] = 0 THEN FZero
    ELSE LET n == a[1] * Pow2(FloatBits + 2)
             q == n \div b[1]
         IN  FRound(2 * q + (IF n % b[1] = 0 THEN 0 ELSE 1),
                    a[2] - b[2] - FloatBits - 3)

\* math.sqrt; the lowest bit records an inexact root
FSqrt(a) ==
    IF a[1] = 0 THEN FZero
    ELSE LET m == IF a[2] % 2 = 0 THEN a[1] ELSE 2 * a[1]
             e == IF a[2] % 2 = 0 THEN a[2] ELSE a[2] - 1
             n == m * Pow2(2 * FloatBits - 2)
             r == SqrtScaled(n)
         IN  FRound(2 * r + (IF r * r = n THEN 0 ELSE 1),
                    (e \div 2) - FloatBits)

FLe(a, b) ==
    \/ a[1] = 0
    \/ /\ b[1] # 0
       /\ \/ a[2] < b[2]
          \/ a[2] = b[2] /\ a[1] <= b[1]

\* vec.get(word, 0.0), vec a dict kept as the sequence of its items
FGet(vec, word) ==
    LET hit == SelectSeq(vec, LAMBDA item : item[1] = word) IN
    IF hit = <<>> THEN FZero ELSE hit[1][2]

RECURSIVE FDot(_, _, _, _)
\* the loop dot += val * other.get(word, 0.0) over the items of vec, in order
FDot(vec, other, i, dot) ==
    IF i > Len(vec) THEN dot
    ELSE FDot(vec, other, i + 1, FAdd(dot, FMul(vec[i][2], FGet(other, vec[i][1]))))

RECURSIVE FSumSquares(_, _, _)
\* sum(v * v for v in vec.values())
FSumSquares(vec, i, acc) ==
    IF i > Len(vec) THEN acc
    ELSE FSumSquares(vec, i + 1, FAdd(acc, FMul(vec[i][2], vec[i][2])))

\* _cosine_similarity on floats, the dicts in their insertion order
cosine_similarity_float(vec1, vec2) ==
    IF vec1 = <<>> \/ vec2 = <<>> THEN FZero
    ELSE LET dot == IF Len(vec1) < Len(vec2)
                    THEN FDot(vec1, vec2, 1, FZero)
                    ELSE FDot(vec2, vec1, 1, FZero)
             norm1 == FSqrt(FSumSquares(vec1, 1, FZero))
             norm2 == FSqrt(FSumSquares(vec2, 1, FZero))
         IN  IF norm1 = FZero \/ norm2 = FZero THEN FZero
             ELSE FDiv(dot, FMul(norm1, norm2))

-----------------------------------------------------------------------------
(* _cosine_similarity called on its own, on bounded sparse vectors *)

MaxTerms == 3

TermPool == {"data", "for", "research"}

\* weights 0, 6, 13 and 15: sums of their products need rounding
WeightPool == {FZero, Float(6), Float(13), Float(15)}

\* the dicts with at most n items: every order of keys, every weight
RECURSIVE Vectors(_, _)
Vectors(S, n) ==
    IF n = 0 THEN {<<>>}
    ELSE {<<>>} \cup UNION {{<<<<t, w>>>> \o r : r \in Vectors(S \ {t}, n - 1), w \in WeightPool}
                               : t \in S}

CosInit ==
    /\ driver = "_cosine_similarity"
    /\ pc = "call"
    /\ call \in Vectors(TermPool, MaxTerms) \X Vectors(TermPool, MaxTerms)
    /\ result = <<>>
    /\ files = [n \in {} |-> PdfFile(<<>>)]
    /\ filepath = ""
    /\ page_num = 0
    /\ sections = <<>>
    /\ input_json = "valid"
    /\ docs_info = <<>>
    /\ doc_idx = 0
    /\ persona = NoDict
    /\ job = NoDict
    /\ all_sections = <<>>
    /\ scores = <<>>
    /\ ranked = <<>>
    /\ outputs = <<>>
    /\ log = <<>>

CallCosine ==
    /\ driver = "_cosine_similarity"
    /\ pc = "call"
    /\ result' = cosine_similarity_float(call[1], call[2])
    /\ pc' = "result"
    /\ UNCHANGED <<driver, call, files, filepath, page_num, sections, batchVars>>

CosNext == CallCosine

CosSpec == CosInit /\ [][CosNext]_vars

CosReturned == driver = "_cosine_similarity" /\ pc = "result"

ZeroVector(vec) == \A i \in 1..Len(vec) : vec[i][2] = FZero

\* C12: the cosine similarity of two vectors with non-negative weights is
\* the same with the arguments exchanged, lies in [0,1], and is 0 when one
\* of the vectors is empty or has norm zero.
C12_CosineSymmetricBounded ==
    CosReturned =>
        /\ result = cosine_similarity_float(call[2], call[1])
        /\ FLe(FZero, result) /\ FLe(result, FOne)
        /\ (ZeroVector(call[1]) \/ ZeroVector(call[2])) => result = FZero

-----------------------------------------------------------------------------
(* Cross-document importance, checked under RankSpec *)

\* the documents that hold a section with exactly this title
DocsWithTitle(title) ==
    {all_sections[k].document :
        k \in {k \in 1..Len(all_sections) : all_sections[k].section_title = title}}

\* C13: the raw cross-document importance of a section is the number of
\* distinct documents holding a section of exactly its title, divided by the
\* largest such number over all titles; a title of two documents scores
\* strictly above a title of one document.
C13_CrossDocumentImportance ==
    (pc = "sort" /\ all_sections # <<>>) =>
        LET raw == compute_cross_document_importance(all_sections)
            n(i) == Cardinality(DocsWithTitle(all_sections[i].section_title))
        IN  /\ Len(raw) = Len(all_sections)
            /\ \A i \in 1..Len(raw) :
                  /\ (\A k \in 1..Len(raw) : n(k) <= n(i)) => raw[i] = One
                  /\ \E k \in 1..Len(raw) :
                        /\ \A j \in 1..Len(raw) : n(j) <= n(k)
                        /\ raw[i] = Rat(n(i), n(k))
            /\ \A i, j \in 1..Len(raw) :
                  (n(i) = 2 /\ n(j) = 1) => RLt(raw[j], raw[i])

C13_Witness ==
    /\ pc = "sort"
    /\ Len(all_sections) = 3
    /\ all_sections[1].section_title = <<"Conclusion">>
    /\ all_sections[2].section_title = <<"Conclusion">>
    /\ all_sections[1].document # all_sections[2].document
    /\ all_sections[3].section_title = <<"Appendix">>
    /\ compute_cross_document_importance(all_sections) = <<One, One, <<1, 2>>>>

-----------------------------------------------------------------------------
(* refine_subsections called on its own, on bounded section lists *)

MaxRefine == 2
MaxSentences == 3

\* sentences of 25, 26 and 26 characters, and one of exactly 20
Sentence1 == <<"we", "optimize", "data", "systems.">>
Sentence2 == <<"research", "data", "for", "systems.">>
Sentence3 == <<"data", "for", "research", "systems.">>
ShortSentence == Body1

\* 314 characters, none of its sentences longer than 20
LongText == Flatten([i \in 1..15 |-> ShortSentence])

\* the texts made of at most MaxSentences sentences
SentenceTexts ==
    {Flatten(ss) : ss \in SeqsUpTo({Sentence1, Sentence2, Sentence3, ShortSentence},
                                   MaxSentences)}

RefineSections ==
    {AnnotatedSection(<<"Conclusion">>, t, d[2], d[1]) :
        t \in {<<>>, Body2, LongText, Sentence2, Sentence1 \o Sentence3 \o Sentence2},
        d \in {<<"a.pdf", 1>>, <<"b.pdf", 2>>}}

RefineInit ==
    /\ driver = "refine_subsections"
    /\ pc = "call"
    /\ \E pers \in PersonaPool, jb \in JobPool :
          \/ \E secs \in SeqsUpTo(RefineSections, MaxRefine), n \in 0..MaxRefine :
                call = [ranked_sections |-> secs, persona |-> pers, job |-> jb, top_n |-> n]
          \/ \E t \in SentenceTexts :
                call = [ranked_sections |-> <<AnnotatedSection(<<"Appendix">>, t, 1, "a.pdf")>>,
                        persona |-> pers, job |-> jb, top_n |-> 5]
    /\ result = <<>>
    /\ files = [n \in {} |-> PdfFile(<<>>)]
    /\ filepath = ""
    /\ page_num = 0
    /\ sections = <<>>
    /\ input_json = "valid"
    /\ docs_info = <<>>
    /\ doc_idx = 0
    /\ persona = NoDict
    /\ job = NoDict
    /\ all_sections = <<>>
    /\ scores = <<>>
    /\ ranked = <<>>
    /\ outputs = <<>>
    /\ log = <<>>

CallRefine ==
    /\ driver = "refine_subsections"
    /\ pc = "call"
    /\ result' = refine_subsections(call.ranked_sections, call.persona, call.job, call.top_n)
    /\ pc' = "result"
    /\ UNCHANGED <<driver, call, files, filepath, page_num, sections, batchVars>>

RefineNext == CallRefine

RefineSpec == RefineInit /\ [][RefineNext]_vars

\* the drivers and the call of refine_subsections on its own
AnalysisSpec == (BatchInit \/ RefineInit) /\ [][BatchNext \/ RefineNext]_vars

RefineReturned == driver = "refine_subsections" /\ pc = "result"

\* C14: refine_subsections returns min(top_n, len(input)) excerpts, the
\* i-th with the document and the page number of the i-th input section; in
\* an output file subsection_analysis and extracted_sections have the same
\* length, at most 5, agree entry by entry on document and page number, and
\* extracted_sections carries the ranks 1, 2, ... in this order.
C14_AnalysisAligned ==
    /\ RefineReturned =>
          /\ Len(result) = Min(call.top_n, Len(call.ranked_sections))
          /\ \A i \in 1..Len(result) :
                /\ result[i].document = call.ranked_sections[i].document
                /\ result[i].page_number = call.ranked_sections[i].page_number
    /\ \A k \in 1..Len(outputs) :
          LET extracted == outputs[k].extracted_sections
              analysis == outputs[k].subsection_analysis
          IN  /\ Len(analysis) = Len(extracted)
              /\ Len(extracted) <= 5
              /\ \A i \in 1..Len(extracted) :
                    /\ extracted[i].importance_rank = i
                    /\ analysis[i].document = extracted[i].document
                    /\ analysis[i].page_number = extracted[i].page_number

C14_Witness ==
    /\ RefineReturned
    /\ call.top_n = 1
    /\ Len(call.ranked_sections) = 2
    /\ call.ranked_sections[1].document = "b.pdf"
    /\ call.ranked_sections[2].document = "a.pdf"
    /\ Len(result) = 1
    /\ result[1].document = "b.pdf"

\* the usable sentences of the i-th section of the call
Usable(i) == _split_into_sentences(call.ranked_sections[i].text)

QueryTerms ==
    Range(_tokenize(DictGet(call.persona, "role", <<>>)
                      \o DictGet(call.persona, "description", <<>>)
                      \o DictGet(call.job, "task", <<>>)))

\* sentence a of ss goes before sentence b: higher score, or equal score
\* and earlier in the text
Before(ss, a, b) ==
    LET sa == _score_sentence(ss[a], QueryTerms)
        sb == _score_sentence(ss[b], QueryTerms)
    IN  RLt(sb, sa) \/ (sa = sb /\ a < b)

\* C16: with usable sentences, refined_text is the best sentence followed by
\* the second best, best meaning the highest score and among equal scores
\* the earlier sentence; with one usable sentence it is that sentence.
C16_TopTwoSentences ==
    RefineReturned =>
        \A i \in 1..Len(result) :
            LET ss == Usable(i)
                x == result[i].refined_text
            IN  /\ Len(ss) = 1 => x.words = ss[1]
                /\ Len(ss) >= 2 =>
                      \E a, b \in 1..Len(ss) :
                          /\ a # b
                          /\ \A c \in 1..Len(ss) : c # a => Before(ss, a, c)
                          /\ \A c \in 1..Len(ss) : c \notin {a, b} => Before(ss, b, c)
                          /\ x.words = ss[a] \o ss[b]

C16_Witness ==
    /\ RefineReturned
    /\ Len(result) = 1
    /\ call.ranked_sections[1].text = Sentence1 \o Sentence3 \o Sentence2
    /\ result[1].refined_text.words = Sentence3 \o Sentence2

-----------------------------------------------------------------------------
(* _is_heading called on its own, on bounded lines *)

MaxWords == 16

\* what a line starts with: no label, or a label of one of the shapes
LabelPool == {<<>>, <<"1.">>, <<"2.3">>, <<"2.3.">>, <<"A.">>}

\* what the rest of the line is made of: a short lowercase word, a long
\* lowercase word, a capitalised word
FillPool == {"data", "contributions", "Conclusion"}

HeadingLines ==
    {label \o [i \in 1..n |-> w] : label \in LabelPool, w \in FillPool, n \in 0..MaxWords}

HeadingInit ==
    /\ driver = "_is_heading"
    /\ pc = "call"
    /\ call \in HeadingLines
    /\ result = <<>>
    /\ files = [n \in {} |-> PdfFile(<<>>)]
    /\ filepath = ""
    /\ page_num = 0
    /\ sections = <<>>
    /\ input_json = "valid"
    /\ docs_info = <<>>
    /\ doc_idx = 0
    /\ persona = NoDict
    /\ job = NoDict
    /\ all_sections = <<>>
    /\ scores = <<>>
    /\ ranked = <<>>
    /\ outputs = <<>>
    /\ log = <<>>

CallIsHeading ==
    /\ driver = "_is_heading"
    /\ pc = "call"
    /\ result' = _is_heading(call)
    /\ pc' = "result"
    /\ UNCHANGED <<driver, call, files, filepath, page_num, sections, batchVars>>

HeadingNext == CallIsHeading

HeadingSpec == HeadingInit /\ [][HeadingNext]_vars

HeadingReturned == driver = "_is_heading" /\ pc = "result"

\* the enumeration labels in the shapes "1. ", "2.3 " and "A. "
EnumerationLabels == {"1.", "2.3", "A."}

\* C17: a line of more than 100 characters or more than 15 words is no
\* heading, whatever it starts with; a shorter line that starts with an
\* enumeration label and goes on after it is a heading, whatever the
\* capitalisation of its words.
C17_EnumerationHeading ==
    HeadingReturned =>
        /\ (TextLen(call) > 100 \/ Len(call) > 15) => result = FALSE
        /\ (/\ TextLen(call) <= 100
            /\ Len(call) <= 15
            /\ Len(call) >= 2
            /\ call[1] \in EnumerationLabels) => result = TRUE

-----------------------------------------------------------------------------
(* Frame of the section records, checked under BatchSpec *)

\* the keys of a section as parse_pdf returns it
ParsedKeys == {"section_title", "text", "page_number"}

\* C18: the stages add their fields to new records: the records parse_pdf
\* returned keep their keys, without a document field, and the records
\* handed to rank_sections keep theirs, without importance_rank and _score.
C18_NoInPlaceMutation ==
    /\ \A i \in 1..Len(sections) : DOMAIN sections[i] = ParsedKeys
    /\ \A i \in 1..Len(all_sections) : DOMAIN all_sections[i] = ParsedKeys \cup {"document"}

-----------------------------------------------------------------------------
(* The lines in front of the first heading of a page, checked under SegSpec *)

\* the body lines that follow the first heading of the page, joined
TextAfterFirstHeading(lines) ==
    LET first == HeadingIndexes(lines)[1] IN
    Flatten(SelectSeq(SubSeq(lines, first + 1, Len(lines)),
                      LAMBDA ln : ~_is_heading(ln)))

\* C19: on a page with a heading line the texts of the sections of the page
\* are made of the body lines behind the first heading, and of nothing else:
\* the lines in front of the first heading are in no section, and nothing of
\* the page before is.
C19_PreambleDiscarded ==
    \A p \in DonePages :
        LET lines == NonEmptyLines(Pages[p].text)
            got == SectionsOfPage(p)
        IN  (Pages[p].ok /\ HasHeading(lines)) =>
                Flatten([i \in 1..Len(got) |-> got[i].text]) = TextAfterFirstHeading(lines)

C19_Witness ==
    /\ pc = "returned"
    /\ Len(Pages) = 2
    /\ Pages[1].ok /\ Pages[2].ok
    /\ Pages[1].text = <<Heading2>>
    /\ Pages[2].text = <<Body1, Heading1, Body2>>
    /\ Len(sections) = 1
    /\ sections[1].section_title = Heading1
    /\ sections[1].text = Body2

====
